---- MODULE Spec2Model ----
(***************************************************************************)
(* Configuration resolution and validation of vouch-proxy, pkg/cfg/cfg.go. *)
(*                                                                         *)
(* Strings that the code inspects character by character (claims, the      *)
(* claim-header prefix) are sequences of Unicode code points; strings the  *)
(* code only copies or measures are TLA+ strings.                          *)
(***************************************************************************)
EXTENDS Integers, Sequences, FiniteSets, TLC

\* ------------------------------------------------------------------------
\* Bounds of the model
\* ------------------------------------------------------------------------

\* longest claim body (after an optional URL scheme) fed to claimToHeader
MaxClaimLen == 3
\* largest maxAge value a document sets (the smallest is -1)
MaxAge == 2
\* longest Headers.Claims list a document sets
MaxClaims == 2
\* how many times a test binary calls InitForTestPurposesWithProvider
MaxInits == 2

\* ------------------------------------------------------------------------
\* Program constants
\* ------------------------------------------------------------------------

minBase64Length == 44
\* flag.Int("port", -1, "port")
PortUnset == -1

RequiredOptions == <<"oauth.provider", "oauth.client_id">>

\* ------------------------------------------------------------------------
\* Characters
\* ------------------------------------------------------------------------

Hyphen == 45
Letters == (65..90) \cup (97..122)
Digits == 48..57

\* "http://" and "https://"
SchemeHttp == <<104, 116, 116, 112, 58, 47, 47>>
SchemeHttps == <<104, 116, 116, 112, 115, 58, 47, 47>>

\* the runes of the raw string literal `"(),/\:;<=>?@[]{}_.` in range order
DisallowedRunes == <<34, 40, 41, 44, 47, 92, 58, 59, 60, 61, 62, 63, 64, 91, 93, 123, 125, 95, 46>>

\* strings.TrimPrefix
TrimPrefix(s, prefix) ==
    IF Len(s) >= Len(prefix) /\ SubSeq(s, 1, Len(prefix)) = prefix
    THEN SubSeq(s, Len(prefix) + 1, Len(s))
    ELSE s

\* strings.ReplaceAll(s, string(r), "-")
ReplaceAll(s, r) == [i \in 1..Len(s) |-> IF s[i] = r THEN Hyphen ELSE s[i]]

\* strings.Replace(s, string(r), "-", 1): only the first occurrence
ReplaceFirst(s, r) ==
    IF \E i \in 1..Len(s) : s[i] = r
    THEN LET k == CHOOSE i \in 1..Len(s) : s[i] = r /\ \A j \in 1..(i - 1) : s[j] # r
         IN  [i \in 1..Len(s) |-> IF i = k THEN Hyphen ELSE s[i]]
    ELSE s

\* for _, r := range `"(),/\:;<=>?@[]{}_.` { claim = strings.ReplaceAll(...) }
RECURSIVE ReplaceDisallowed(_, _)
ReplaceDisallowed(claim, i) ==
    IF i > Len(DisallowedRunes) THEN claim
    ELSE ReplaceDisallowed(ReplaceAll(claim, DisallowedRunes[i]), i + 1)

\* a variant that forgets the loop over the runes outside 33..126
ReplaceNonPrintableSkipped(ranged, i, claim) == claim

\* for _, r := range claim { if r < 33 || r > 126 { claim = Replace(.., 1) } }
\* `ranged` is the string the range statement was evaluated on
RECURSIVE ReplaceNonPrintable(_, _, _)
ReplaceNonPrintable(ranged, i, claim) ==
    IF i > Len(ranged) THEN claim
    ELSE IF ranged[i] < 33 \/ ranged[i] > 126
         THEN ReplaceNonPrintable(ranged, i + 1, ReplaceFirst(claim, ranged[i]))
         ELSE ReplaceNonPrintable(ranged, i + 1, claim)

\* net/textproto validHeaderFieldByte: the token characters of RFC 7230
\* !#$%&'*+-.^_`|~ digits letters
validHeaderFieldByte(c) ==
    c \in Letters \cup Digits \cup {33, 35, 36, 37, 38, 39, 42, 43, 45, 46, 94, 95, 96, 124, 126}

\* http.CanonicalHeaderKey: unchanged unless every byte is a token character,
\* else upper case at the start and after each hyphen, lower case elsewhere
CanonicalHeaderKey(s) ==
    IF \E i \in 1..Len(s) : ~validHeaderFieldByte(s[i]) THEN s
    ELSE [i \in 1..Len(s) |->
            LET upper == (i = 1) \/ (s[i - 1] = Hyphen)
            IN  IF upper /\ s[i] \in 97..122 THEN s[i] - 32
                ELSE IF ~upper /\ s[i] \in 65..90 THEN s[i] + 32
                ELSE s[i]]

\* claimToHeader, with Cfg.Headers.ClaimHeader passed as claimHeader
claimToHeader(claim, claimHeader) ==
    LET c1 == TrimPrefix(claim, SchemeHttp)
        c2 == TrimPrefix(c1, SchemeHttps)
        c3 == ReplaceDisallowed(c2, 1)
        c4 == ReplaceNonPrintable(c3, 1, c3)
    IN  claimHeader \o CanonicalHeaderKey(c4)

\* ------------------------------------------------------------------------
\* Config (the fields the resolution pipeline and the validator read)
\* ------------------------------------------------------------------------

\* a Go map with no entries (nil or made empty)
EmptyMap == [x \in {} |-> <<>>]

\* &Config{}: every field at its zero value
ZeroConfig ==
    [Port          |-> 0,
     Domains       |-> <<>>,
     AllowAllUsers |-> FALSE,
     JWT           |-> [MaxAge |-> 0, Secret |-> ""],
     Cookie        |-> [Name |-> "", MaxAge |-> 0],
     Headers       |-> [ClaimHeader |-> <<>>, Claims |-> <<>>, ClaimsCleaned |-> EmptyMap],
     Session       |-> [Key |-> ""]]

\* ------------------------------------------------------------------------
\* Documents as viper holds them: the keys a YAML mapping defines, with
\* their values.  Keys are lower case, nested keys are joined by a dot.
\* ------------------------------------------------------------------------

\* a top-level key that is absent or an empty mapping
EmptySection == [k \in {} |-> 0]

\* viper before any ReadInConfig
EmptyDoc == [vouch |-> EmptySection, lasso |-> EmptySection, oauth |-> {}, unknown |-> FALSE]

\* viper.IsSet(key) on the configuration viper currently holds
IsSet(vp, key) ==
    CASE key = "vouch.allowAllUsers" -> "allowallusers" \in DOMAIN vp.vouch
      [] key = "vouch.domains"       -> "domains" \in DOMAIN vp.vouch
      [] OTHER                       -> key \in vp.oauth

\* mapstructure decodeSlice into an existing slice (ZeroFields is off):
\* element i of the data overwrites element i, later elements are kept
DecodeSlice(data, into) ==
    [i \in 1..(IF Len(data) > Len(into) THEN Len(data) ELSE Len(into)) |->
        IF i <= Len(data) THEN data[i] ELSE into[i]]

\* mapstructure decoding one scalar key: a key of the map overwrites the
\* field, a key the map lacks leaves the field as it is
DecodeField(sec, key, into) == IF key \in DOMAIN sec THEN sec[key] ELSE into

DecodeSliceField(sec, key, into) ==
    IF key \in DOMAIN sec THEN DecodeSlice(sec[key], into) ELSE into

\* UnmarshalKey(key, &cfg): viper.UnmarshalKey decodes the mapping under the
\* key into the struct cfg points to, field by field
UnmarshalKey(sec, cfg) ==
    [Port          |-> DecodeField(sec, "port", cfg.Port),
     Domains       |-> DecodeSliceField(sec, "domains", cfg.Domains),
     AllowAllUsers |-> DecodeField(sec, "allowallusers", cfg.AllowAllUsers),
     JWT           |-> [MaxAge |-> DecodeField(sec, "jwt.maxage", cfg.JWT.MaxAge),
                        Secret |-> DecodeField(sec, "jwt.secret", cfg.JWT.Secret)],
     Cookie        |-> [Name   |-> DecodeField(sec, "cookie.name", cfg.Cookie.Name),
                        MaxAge |-> DecodeField(sec, "cookie.maxage", cfg.Cookie.MaxAge)],
     Headers       |-> [ClaimHeader   |-> DecodeField(sec, "headers.claimheader", cfg.Headers.ClaimHeader),
                        Claims        |-> DecodeSliceField(sec, "headers.claims", cfg.Headers.Claims),
                        ClaimsCleaned |-> cfg.Headers.ClaimsCleaned],
     Session       |-> [Key |-> DecodeField(sec, "session.key", cfg.Session.Key)]]

\* checkConfigFileWellFormed: a strict decode into struct{Vouch; OAuth}
\* fails on any other top-level key, the legacy key included
checkConfigFileWellFormed(doc) ==
    IF doc.unknown \/ DOMAIN doc.lasso # {} THEN "unused keys" ELSE "nil"

\* ------------------------------------------------------------------------
\* The stages of resolution, as operators on (Cfg, viper, log)
\* ------------------------------------------------------------------------

\* a variant that decodes the legacy key into the primary result instead
\* of into a fresh Config
legacyMigrateMerged(doc, primary) ==
    IF Len(primary.Domains) = 0
    THEN LET oldConfig == UnmarshalKey(doc.lasso, primary)
         IN  IF Len(oldConfig.Domains) # 0
             THEN [Cfg |-> oldConfig, checked |-> TRUE, adopted |-> TRUE]
             ELSE [Cfg |-> primary, checked |-> TRUE, adopted |-> FALSE]
    ELSE [Cfg |-> primary, checked |-> FALSE, adopted |-> FALSE]

\* if len(Cfg.Domains) == 0: the legacy key is decoded into a fresh Config,
\* which replaces Cfg when it has Domains
legacyMigrate(doc, primary) ==
    IF Len(primary.Domains) = 0
    THEN LET oldConfig == UnmarshalKey(doc.lasso, ZeroConfig)
         IN  IF Len(oldConfig.Domains) # 0
             THEN [Cfg |-> oldConfig, checked |-> TRUE, adopted |-> TRUE]
             ELSE [Cfg |-> primary, checked |-> TRUE, adopted |-> FALSE]
    ELSE [Cfg |-> primary, checked |-> FALSE, adopted |-> FALSE]

\* parseConfig on the file the source locator chose.  log.Fatalf ends the
\* process when viper.ReadInConfig fails; otherwise ReadInConfig replaces
\* the configuration viper holds, the strict decode only logs, the primary
\* key is decoded into cfg and the legacy key is looked at.
parseConfig(file, cfg, vp, lg) ==
    IF ~file.ok
    THEN [fatal |-> TRUE, Cfg |-> cfg, viper |-> vp, log |-> lg \cup {"Fatal error config file"},
          ran |-> <<>>]
    ELSE LET doc == file.doc
             lg1 == IF checkConfigFileWellFormed(doc) # "nil"
                    THEN lg \cup {"configuration error"} ELSE lg
             m   == legacyMigrate(doc, UnmarshalKey(doc.vouch, cfg))
         IN  [fatal |-> FALSE,
              Cfg   |-> m.Cfg,
              viper |-> doc,
              log   |-> IF m.adopted THEN lg1 \cup {"IMPORTANT! please update your config file"} ELSE lg1,
              ran   |-> <<"SchemaGuard", "PrimaryResolver">>
                        \o (IF m.checked THEN <<"LegacyMigrator">> ELSE <<>>)]

\* setDefaults: the result of viper.ReadInConfig on .defaults.yml is not
\* looked at; when it fails viper keeps the configuration it held.  Then the
\* primary key of whatever viper holds is decoded into cfg.  Both branches
\* on *CmdLine.IsHealthCheck return without doing more.
setDefaults(file, cfg, vp) ==
    LET vp1 == IF file.ok THEN file.doc ELSE vp
    IN  [Cfg |-> UnmarshalKey(vp1.vouch, cfg), viper |-> vp1]

\* a variant that keeps one entry per header: a claim whose header an
\* earlier claim already produced replaces that claim's entry
RECURSIVE cleanedHeadersLastWins(_, _, _, _)
cleanedHeadersLastWins(claims, claimHeader, i, m) ==
    IF i > Len(claims) THEN m
    ELSE LET header == claimToHeader(claims[i], claimHeader)
             kept   == {c \in DOMAIN m : m[c] # header}
         IN  cleanedHeadersLastWins(claims, claimHeader, i + 1,
                 (claims[i] :> header) @@ [c \in kept |-> m[c]])

\* the loop of cleanClaimsHeaders: cleanedHeaders[claim] = header
RECURSIVE cleanedHeaders(_, _, _, _)
cleanedHeaders(claims, claimHeader, i, m) ==
    IF i > Len(claims) THEN m
    ELSE cleanedHeaders(claims, claimHeader, i + 1,
             (claims[i] :> claimToHeader(claims[i], claimHeader)) @@ m)

\* cleanClaimsHeaders: a fresh map, filled by the loop, replaces ClaimsCleaned
cleanClaimsHeaders(cfg) ==
    [cfg EXCEPT !.Headers.ClaimsCleaned =
        cleanedHeaders(cfg.Headers.Claims, cfg.Headers.ClaimHeader, 1, EmptyMap)]

\* if *CmdLine.port != -1 { Cfg.Port = *CmdLine.port }
portOverride(cfg, port) == IF port # PortUnset THEN [cfg EXCEPT !.Port = port] ELSE cfg

\* ------------------------------------------------------------------------
\* basicTest
\* ------------------------------------------------------------------------

\* "configuration error: required configuration option " + opt + " is not set"
requiredError(opt) ==
    IF opt = "oauth.provider" THEN "required configuration option oauth.provider is not set"
    ELSE "required configuration option oauth.client_id is not set"

\* what oauthBasicTest (oauth.go) may return: nil or its own error
oauthBasicTestResults == {"nil", "oauth configuration error"}

\* for _, opt := range RequiredOptions { if !viper.IsSet(opt) { return error } }
RECURSIVE requiredTest(_, _)
requiredTest(vp, i) ==
    IF i > Len(RequiredOptions) THEN "nil"
    ELSE IF ~IsSet(vp, RequiredOptions[i]) THEN requiredError(RequiredOptions[i])
    ELSE requiredTest(vp, i + 1)

\* Domains is required unless allowAllUsers is set: both tests are viper.IsSet
domainsTest(vp) ==
    IF ~IsSet(vp, "vouch.allowAllUsers") /\ ~IsSet(vp, "vouch.domains")
    THEN "either one of vouch.domains or vouch.allowAllUsers needs to be set"
    ELSE "nil"

\* the two length checks only log
lengthWarnings(cfg) ==
    (IF Len(cfg.JWT.Secret) < minBase64Length THEN {"Your secret is too short!"} ELSE {})
    \cup (IF Len(cfg.Session.Key) < minBase64Length THEN {"Your session key is too short!"} ELSE {})

\* a variant whose JWT check is off by one: it lets a JWT maxAge of 0 pass
maxAgeTestOffByOne(cfg) ==
    IF cfg.Cookie.MaxAge < 0 THEN "cookie maxAge cannot be lower than 0"
    ELSE IF cfg.JWT.MaxAge < 0 THEN "JWT maxAge cannot be zero or lower"
    ELSE IF cfg.Cookie.MaxAge > cfg.JWT.MaxAge THEN "Cookie maxAge cannot be larger than the JWT maxAge"
    ELSE "nil"

\* a variant that checks the JWT maxAge before the cookie maxAge
maxAgeTestJWTFirst(cfg) ==
    IF cfg.JWT.MaxAge <= 0 THEN "JWT maxAge cannot be zero or lower"
    ELSE IF cfg.Cookie.MaxAge < 0 THEN "cookie maxAge cannot be lower than 0"
    ELSE IF cfg.Cookie.MaxAge > cfg.JWT.MaxAge THEN "Cookie maxAge cannot be larger than the JWT maxAge"
    ELSE "nil"

\* the three maxAge checks, in the order of the code
maxAgeTest(cfg) ==
    IF cfg.Cookie.MaxAge < 0 THEN "cookie maxAge cannot be lower than 0"
    ELSE IF cfg.JWT.MaxAge <= 0 THEN "JWT maxAge cannot be zero or lower"
    ELSE IF cfg.Cookie.MaxAge > cfg.JWT.MaxAge THEN "Cookie maxAge cannot be larger than the JWT maxAge"
    ELSE "nil"

\* basicTest: the first error in the order of the code; the warnings are
\* logged only when the checks before them passed.  oauthErr is what
\* oauthBasicTest returned.
basicTest(cfg, vp, oauthErr) ==
    IF oauthErr # "nil" THEN [err |-> oauthErr, warned |-> {}]
    ELSE IF requiredTest(vp, 1) # "nil" THEN [err |-> requiredTest(vp, 1), warned |-> {}]
    ELSE IF domainsTest(vp) # "nil" THEN [err |-> domainsTest(vp), warned |-> {}]
    ELSE [err |-> maxAgeTest(cfg), warned |-> lengthWarnings(cfg)]

\* ------------------------------------------------------------------------
\* State
\* ------------------------------------------------------------------------

VARIABLES
    pc,       \* where the process is: main, Configure, ValidateConfiguration, ...
    step,     \* inside Configure: the index of the next call of ConfigureOrder
    Cfg,      \* the package variable Cfg (the Config it points to)
    viper,    \* the configuration the viper singleton holds
    files,    \* the primary document and .defaults.yml as found on disk
    CmdLine,  \* the parsed command-line flags
    log,      \* the messages logged so far
    errT,     \* what basicTest returned to ValidateConfiguration
    oauthErr, \* what oauthBasicTest returned to basicTest
    stages,   \* the stages of resolution that have run, in order
    inits,    \* calls of InitForTestPurposesWithProvider so far
    call      \* a single call of claimToHeader: its arguments and result

vars == <<pc, step, Cfg, viper, files, CmdLine, log, errT, oauthErr, stages, inits, call>>

\* a variant that applies the port flag before the defaults are decoded
ConfigureOrderOverrideFirst == <<"parseConfig", "portOverride", "setDefaults", "cleanClaimsHeaders">>

\* a variant that computes the claim headers after the port flag
ConfigureOrderSanitizeLast == <<"parseConfig", "setDefaults", "portOverride", "cleanClaimsHeaders">>

\* what main() calls, in order
MainOrder == <<"Configure", "ValidateConfiguration">>

\* the calls Configure makes once it has decided not to bail out
ConfigureOrder == <<"parseConfig", "setDefaults", "cleanClaimsHeaders", "portOverride">>

NoCall == [claim |-> <<>>, claimHeader |-> <<>>, header |-> <<>>, returned |-> FALSE]

\* ------------------------------------------------------------------------
\* The documents and flags the model starts from
\* ------------------------------------------------------------------------

Opt(values) == {{}} \cup {{v} : v \in values}

\* the mapping {key: value} when one value is given, no key otherwise
Field(key, value) == IF value = {} THEN EmptySection ELSE key :> (CHOOSE v \in value : TRUE)

SeqsUpTo(S, n) == UNION {[1..k -> S] : k \in 0..n}

Readable(doc) == [ok |-> TRUE, doc |-> doc]
Unreadable == [ok |-> FALSE, doc |-> EmptyDoc]

BothOptions == {"oauth.provider", "oauth.client_id"}

LongSecret == "0123456789012345678901234567890123456789abcd"
ShortSecret == "hunter2"

\* "roles", "Roles", "https://example.com/roles"
ClaimRoles == <<114, 111, 108, 101, 115>>
ClaimRolesUpper == <<82, 111, 108, 101, 115>>
ClaimURLRoles == SchemeHttps \o <<101, 120, 97, 109, 112, 108, 101, 46, 99, 111, 109, 47>> \o ClaimRoles
ClaimGroups == <<103, 114, 111, 117, 112, 115>>
ClaimPool == {ClaimRoles, ClaimRolesUpper, ClaimURLRoles}

\* "X-" and "D-"
PrefixX == <<88, 45>>
PrefixD == <<68, 45>>

\* documents that exercise the validator
ValidatorFiles ==
    {[primary  |-> Readable([vouch |-> Field("domains", d) @@ Field("allowallusers", a)
                                        @@ Field("jwt.maxage", j) @@ Field("cookie.maxage", c)
                                        @@ Field("jwt.secret", {s}) @@ Field("session.key", {s}),
                             lasso |-> l, oauth |-> o, unknown |-> FALSE]),
      defaults |-> df] :
        d \in Opt({<<"a.com">>}), a \in Opt(BOOLEAN),
        j \in Opt((-1)..MaxAge), c \in Opt((-1)..(MaxAge + 1)),
        s \in {ShortSecret, LongSecret},
        l \in {EmptySection, "domains" :> <<"old.com">>},
        o \in {BothOptions, {"oauth.client_id"}, {}},
        df \in {Unreadable,
                Readable(EmptyDoc),
                Readable([vouch |-> ("jwt.maxage" :> 1) @@ ("allowallusers" :> FALSE),
                          lasso |-> EmptySection, oauth |-> BothOptions, unknown |-> FALSE])}}

\* documents that exercise the legacy key and the defaults
MergeFiles ==
    {[primary  |-> Readable([vouch |-> Field("port", p) @@ Field("cookie.name", n)
                                        @@ Field("cookie.maxage", c) @@ Field("domains", d),
                             lasso |-> Field("port", lp) @@ Field("cookie.name", ln) @@ Field("domains", ld),
                             oauth |-> BothOptions, unknown |-> u]),
      defaults |-> df] :
        p \in Opt({9090}), n \in Opt({"VouchCookie"}), c \in Opt({1}), d \in Opt({<<"a.com">>}),
        lp \in Opt({7070}), ln \in Opt({"LassoCookie"}), ld \in Opt({<<"old.com">>}),
        u \in BOOLEAN,
        df \in {Unreadable} \cup
               {Readable([vouch |-> Field("port", dp) @@ Field("cookie.name", dn)
                                    @@ Field("cookie.maxage", dc) @@ ("jwt.maxage" :> 4),
                          lasso |-> EmptySection, oauth |-> BothOptions, unknown |-> FALSE]) :
                    dp \in Opt({9091}), dn \in Opt({"DefaultCookie"}), dc \in Opt({2})}}

\* documents that exercise the claims
ClaimFiles ==
    {[primary  |-> Readable([vouch |-> Field("headers.claims", cl) @@ Field("headers.claimheader", ch)
                                        @@ ("domains" :> <<"a.com">>),
                             lasso |-> EmptySection, oauth |-> BothOptions, unknown |-> FALSE]),
      defaults |-> df] :
        cl \in Opt(SeqsUpTo(ClaimPool, MaxClaims)), ch \in Opt({PrefixX}),
        df \in {Unreadable} \cup
               {Readable([vouch |-> Field("headers.claims", dcl) @@ Field("headers.claimheader", dch)
                                    @@ ("jwt.maxage" :> 4),
                          lasso |-> EmptySection, oauth |-> BothOptions, unknown |-> FALSE]) :
                    dcl \in Opt({<<ClaimGroups>>}), dch \in Opt({PrefixD})}}

\* a primary document that is missing or is not YAML
BrokenFiles == {[primary |-> Unreadable, defaults |-> df] : df \in {Unreadable, Readable(EmptyDoc)}}

\* what InitForTestPurposesWithProvider finds when a test points VOUCH_CONFIG at a file
TestFiles ==
    {[primary  |-> Readable([vouch |-> Field("headers.claims", cl) @@ ("headers.claimheader" :> PrefixX)
                                        @@ ("domains" :> <<"a.com">>),
                             lasso |-> EmptySection, oauth |-> BothOptions, unknown |-> FALSE]),
      defaults |-> df] :
        cl \in Opt(SeqsUpTo(ClaimPool, MaxClaims)),
        df \in {Unreadable,
                Readable([vouch |-> ("headers.claims" :> <<ClaimGroups>>) @@ ("headers.claimheader" :> PrefixD),
                          lasso |-> EmptySection, oauth |-> BothOptions, unknown |-> FALSE])}}
    \cup BrokenFiles

\* the alphabet of the claims given to a single call of claimToHeader:
\* a R 1 - ! / space e-acute
Alphabet == {97, 82, 49, 45, 33, 47, 32, 233}

CallClaims == {scheme \o body : scheme \in {<<>>, SchemeHttp, SchemeHttps},
                                body \in SeqsUpTo(Alphabet, MaxClaimLen)}

\* ------------------------------------------------------------------------
\* Initial states
\* ------------------------------------------------------------------------

\* what holds before main() or a test touches the package
Fresh ==
    /\ step = 0
    /\ Cfg = ZeroConfig
    /\ viper = EmptyDoc
    /\ log = {}
    /\ errT = "not run"
    /\ oauthErr = "not run"
    /\ stages = <<>>
    /\ inits = 0

\* the process starts in main(); under `go test` (flag test.v is defined)
\* the documents are whatever each test points VOUCH_CONFIG at
Init ==
    /\ Fresh
    /\ pc = "main"
    /\ call = NoCall
    /\ \/ /\ files \in ValidatorFiles \cup MergeFiles \cup ClaimFiles \cup BrokenFiles
          /\ CmdLine \in {[port |-> p, goTest |-> FALSE] : p \in {PortUnset, 8080}}
       \/ /\ files = [primary |-> Unreadable, defaults |-> Unreadable]
          /\ CmdLine = [port |-> PortUnset, goTest |-> TRUE]

\* ------------------------------------------------------------------------
\* main(): Configure(), then ValidateConfiguration()
\* ------------------------------------------------------------------------

\* Configure up to its first call: it returns at once under `go test`.
\* Logging.configureFromCmdline, setRootDir and Logging.configure act on the
\* logger and on RootDir only; where the documents are found is in `files`.
Configure ==
    /\ pc = "main"
    /\ IF CmdLine.goTest
       THEN pc' = "test" /\ step' = 0
       ELSE pc' = MainOrder[1] /\ step' = 1
    /\ UNCHANGED <<Cfg, viper, files, CmdLine, log, errT, oauthErr, stages, inits, call>>

\* the call of ConfigureOrder that Configure makes next
AtCall(name) == pc = "Configure" /\ step \in 1..Len(ConfigureOrder) /\ ConfigureOrder[step] = name

\* Configure returns after its last call and main() goes on to ValidateConfiguration
Advance ==
    IF step = Len(ConfigureOrder)
    THEN pc' = MainOrder[2] /\ step' = 0
    ELSE pc' = pc /\ step' = step + 1

Configure_parseConfig ==
    /\ AtCall("parseConfig")
    /\ LET r == parseConfig(files.primary, Cfg, viper, log)
       IN  /\ Cfg' = r.Cfg
           /\ viper' = r.viper
           /\ log' = r.log
           /\ stages' = stages \o r.ran
           /\ IF r.fatal THEN pc' = "exit" /\ step' = 0 ELSE Advance
    /\ UNCHANGED <<files, CmdLine, errT, oauthErr, inits, call>>

Configure_setDefaults ==
    /\ AtCall("setDefaults")
    /\ LET r == setDefaults(files.defaults, Cfg, viper)
       IN  /\ Cfg' = r.Cfg
           /\ viper' = r.viper
    /\ stages' = Append(stages, "DefaultsOverlay")
    /\ Advance
    /\ UNCHANGED <<files, CmdLine, log, errT, oauthErr, inits, call>>

Configure_cleanClaimsHeaders ==
    /\ AtCall("cleanClaimsHeaders")
    /\ Cfg' = cleanClaimsHeaders(Cfg)
    /\ stages' = Append(stages, "ClaimHeaderSanitizer")
    /\ Advance
    /\ UNCHANGED <<viper, files, CmdLine, log, errT, oauthErr, inits, call>>

Configure_portOverride ==
    /\ AtCall("portOverride")
    /\ Cfg' = portOverride(Cfg, CmdLine.port)
    /\ stages' = Append(stages, "CommandLineOverride")
    /\ Advance
    /\ UNCHANGED <<viper, files, CmdLine, log, errT, oauthErr, inits, call>>

\* ValidateConfiguration: log.Panic when basicTest returns an error.  With
\* Cfg.Testing it first switches the logger, which is no part of this state.
ValidateConfiguration ==
    /\ pc = "ValidateConfiguration"
    /\ \E o \in oauthBasicTestResults :
         LET r == basicTest(Cfg, viper, o)
         IN  /\ oauthErr' = o
             /\ errT' = r.err
             /\ log' = log \cup r.warned
             /\ pc' = IF r.err = "nil" THEN "running" ELSE "panic"
    /\ stages' = Append(stages, "Validator")
    /\ UNCHANGED <<step, Cfg, viper, files, CmdLine, inits, call>>

\* InitForTestPurposesWithProvider, called by a test after it has pointed
\* VOUCH_CONFIG at a document: Cfg is cleared, then parseConfig, setDefaults
\* and cleanClaimsHeaders run.  The provider only reaches GenOAuth.
InitForTestPurposesWithProvider ==
    /\ pc = "test"
    /\ inits < MaxInits
    /\ \E f \in TestFiles :
         LET r == parseConfig(f.primary, ZeroConfig, viper, log)
             d == setDefaults(f.defaults, r.Cfg, r.viper)
         IN  /\ files' = f
             /\ log' = r.log
             /\ IF r.fatal
                THEN /\ pc' = "exit"
                     /\ Cfg' = r.Cfg
                     /\ viper' = r.viper
                     /\ stages' = r.ran
                ELSE /\ pc' = "test"
                     /\ Cfg' = cleanClaimsHeaders(d.Cfg)
                     /\ viper' = d.viper
                     /\ stages' = r.ran \o <<"DefaultsOverlay", "ClaimHeaderSanitizer">>
    /\ inits' = inits + 1
    /\ UNCHANGED <<step, CmdLine, errT, oauthErr, call>>

Next ==
    \/ Configure
    \/ Configure_parseConfig
    \/ Configure_setDefaults
    \/ Configure_cleanClaimsHeaders
    \/ Configure_portOverride
    \/ ValidateConfiguration
    \/ InitForTestPurposesWithProvider

Spec == Init /\ [][Next]_vars

\* ------------------------------------------------------------------------
\* claimToHeader on its own: one call per claim and prefix
\* ------------------------------------------------------------------------

InitClaimToHeader ==
    /\ Fresh
    /\ pc = "claimToHeader"
    /\ files = [primary |-> Unreadable, defaults |-> Unreadable]
    /\ CmdLine = [port |-> PortUnset, goTest |-> FALSE]
    /\ call \in {[claim |-> c, claimHeader |-> h, header |-> <<>>, returned |-> FALSE] :
                    c \in CallClaims, h \in {<<>>, PrefixX}}

ClaimToHeaderCall ==
    /\ pc = "claimToHeader"
    /\ ~call.returned
    /\ call' = [call EXCEPT !.header = claimToHeader(call.claim, call.claimHeader),
                            !.returned = TRUE]
    /\ UNCHANGED <<pc, step, Cfg, viper, files, CmdLine, log, errT, oauthErr, stages, inits>>

NextClaimToHeader == ClaimToHeaderCall

SpecClaimToHeader == InitClaimToHeader /\ [][NextClaimToHeader]_vars

\* ------------------------------------------------------------------------
\* Properties
\* ------------------------------------------------------------------------

Range(seq) == {seq[i] : i \in 1..Len(seq)}

\* the stage has run
Ran(stage) == stage \in Range(stages)

\* the position of a stage in an order
Pos(order, stage) == CHOOSE i \in 1..Len(order) : order[i] = stage

\* the stages that have run did so in the given order, none twice
RanInOrder(order) ==
    \A i, j \in 1..Len(stages) : i < j => Pos(order, stages[i]) < Pos(order, stages[j])

\* basicTest has returned
Validated == errT # "not run"

\* C1: whenever basicTest has returned, it returned an error if
\* JWT.MaxAge <= 0, Cookie.MaxAge < 0 or Cookie.MaxAge > JWT.MaxAge; so a
\* configuration that passed has JWT.MaxAge > 0 and 0 <= Cookie.MaxAge <= JWT.MaxAge.
C1_MaxAgesValidated ==
    Validated =>
        /\ (Cfg.JWT.MaxAge <= 0 \/ Cfg.Cookie.MaxAge < 0 \/ Cfg.Cookie.MaxAge > Cfg.JWT.MaxAge)
               => errT # "nil"
        /\ (errT = "nil" /\ pc = "running")
               => (Cfg.JWT.MaxAge > 0 /\ 0 <= Cfg.Cookie.MaxAge /\ Cfg.Cookie.MaxAge <= Cfg.JWT.MaxAge)

\* C1 witness: two positive maxAges, the cookie's the larger, were rejected for that
C1_Witness ==
    /\ pc = "panic"
    /\ Cfg.JWT.MaxAge > 0
    /\ Cfg.Cookie.MaxAge > Cfg.JWT.MaxAge
    /\ errT = "Cookie maxAge cannot be larger than the JWT maxAge"

\* C2 (as claimed): when basicTest reaches the domains check, it returns
\* the domains-or-allowAllUsers error exactly when the resolved Domains is
\* empty and AllowAllUsers is not true; a configuration that passed has
\* Domains or AllowAllUsers.
C2_DomainsOrAllowAllUsers ==
    (Validated /\ oauthErr = "nil" /\ requiredTest(viper, 1) = "nil") =>
        /\ (errT = "either one of vouch.domains or vouch.allowAllUsers needs to be set")
               <=> (Len(Cfg.Domains) = 0 /\ ~Cfg.AllowAllUsers)
        /\ errT = "nil" => (Len(Cfg.Domains) # 0 \/ Cfg.AllowAllUsers)

JustParsed ==
    /\ pc = "Configure"
    /\ stages # <<>>
    /\ stages[Len(stages)] \in {"PrimaryResolver", "LegacyMigrator"}

\* the domain list a top-level key of the primary document sets
DocDomains(sec) == IF "domains" \in DOMAIN sec THEN sec["domains"] ELSE <<>>

\* the primary key has no domains and the legacy key has some
LegacyCase == DocDomains(files.primary.doc.vouch) = <<>> /\ DocDomains(files.primary.doc.lasso) # <<>>

\* C3: after parseConfig, in the legacy case Cfg is the legacy key decoded
\* into a zero Config (nothing of the primary key survives) and the
\* migration warning was logged; otherwise Cfg is the primary key decoded
\* into a zero Config and no warning was logged.
C3_OneTopLevelKey ==
    JustParsed =>
        IF LegacyCase
        THEN /\ Cfg = UnmarshalKey(files.primary.doc.lasso, ZeroConfig)
             /\ "IMPORTANT! please update your config file" \in log
        ELSE /\ Cfg = UnmarshalKey(files.primary.doc.vouch, ZeroConfig)
             /\ "IMPORTANT! please update your config file" \notin log

\* C3 witness: the legacy key was adopted and the port and cookie name that
\* only the primary key sets are gone
C3_Witness ==
    /\ JustParsed
    /\ LegacyCase
    /\ {"port", "cookie.name"} \subseteq DOMAIN files.primary.doc.vouch
    /\ {"port", "cookie.name"} \cap DOMAIN files.primary.doc.lasso = {}
    /\ Cfg.Port = 0
    /\ Cfg.Cookie.Name = ""
    /\ Cfg.Domains = <<"old.com">>

\* setDefaults was the last stage to run in Configure, and it read .defaults.yml
JustDefaulted ==
    /\ pc = "Configure"
    /\ stages # <<>>
    /\ stages[Len(stages)] = "DefaultsOverlay"
    /\ files.defaults.ok

\* the Config the primary stage produced from the primary document
PrimaryStage == parseConfig(files.primary, ZeroConfig, EmptyDoc, {}).Cfg

\* C4 (as claimed): after setDefaults a field the primary stage set to a
\* non-zero value keeps it, also when .defaults.yml defines the key, and a
\* field the primary stage left at zero takes the value .defaults.yml defines
C4_ExplicitBeatsDefault ==
    JustDefaulted =>
        LET def == files.defaults.doc.vouch
        IN  /\ PrimaryStage.Port # 0 => Cfg.Port = PrimaryStage.Port
            /\ PrimaryStage.Cookie.Name # "" => Cfg.Cookie.Name = PrimaryStage.Cookie.Name
            /\ PrimaryStage.Cookie.MaxAge # 0 => Cfg.Cookie.MaxAge = PrimaryStage.Cookie.MaxAge
            /\ PrimaryStage.JWT.MaxAge # 0 => Cfg.JWT.MaxAge = PrimaryStage.JWT.MaxAge
            /\ (PrimaryStage.Port = 0 /\ "port" \in DOMAIN def) => Cfg.Port = def["port"]
            /\ (PrimaryStage.Cookie.Name = "" /\ "cookie.name" \in DOMAIN def)
                   => Cfg.Cookie.Name = def["cookie.name"]
            /\ (PrimaryStage.Cookie.MaxAge = 0 /\ "cookie.maxage" \in DOMAIN def)
                   => Cfg.Cookie.MaxAge = def["cookie.maxage"]
            /\ (PrimaryStage.JWT.MaxAge = 0 /\ "jwt.maxage" \in DOMAIN def)
                   => Cfg.JWT.MaxAge = def["jwt.maxage"]

\* C6: once cleanClaimsHeaders has run, ClaimsCleaned has exactly the
\* distinct claims of Headers.Claims as its keys, and each value is
\* claimToHeader of its key with the configured prefix; before, it is empty.
C6_ClaimsCleanedExact ==
    IF Ran("ClaimHeaderSanitizer")
    THEN /\ DOMAIN Cfg.Headers.ClaimsCleaned = Range(Cfg.Headers.Claims)
         /\ \A claim \in Range(Cfg.Headers.Claims) :
                Cfg.Headers.ClaimsCleaned[claim] = claimToHeader(claim, Cfg.Headers.ClaimHeader)
    ELSE Cfg.Headers.ClaimsCleaned = EmptyMap

\* C6 witness: on a second resolution, two claims with the same header each have their entry
C6_Witness ==
    /\ inits = 2
    /\ Ran("ClaimHeaderSanitizer")
    /\ \E c1, c2 \in DOMAIN Cfg.Headers.ClaimsCleaned :
           c1 # c2 /\ Cfg.Headers.ClaimsCleaned[c1] = Cfg.Headers.ClaimsCleaned[c2]

\* C7: once the port flag has been looked at, a flag other than -1 is the
\* port from then on; looking at a flag of -1 leaves the port as the
\* documents resolved it; nothing later changes the port.
C7_PortFlagWins ==
    /\ [](Ran("CommandLineOverride") /\ CmdLine.port # PortUnset => Cfg.Port = CmdLine.port)
    /\ [][(~Ran("CommandLineOverride") /\ Ran("CommandLineOverride")' /\ CmdLine.port = PortUnset)
              => Cfg'.Port = Cfg.Port]_vars
    /\ [][Ran("CommandLineOverride") => Cfg'.Port = Cfg.Port]_vars

\* C7 witness: both documents set a port, the flag another, and the flag's is used
C7_Witness ==
    /\ pc \in {"running", "panic"}
    /\ CmdLine.port = 8080
    /\ "port" \in DOMAIN files.primary.doc.vouch
    /\ files.defaults.ok
    /\ "port" \in DOMAIN files.defaults.doc.vouch
    /\ Cfg.Port = 8080

\* the order of the stages as the control flow is described
DescribedOrder ==
    <<"SchemaGuard", "PrimaryResolver", "LegacyMigrator", "DefaultsOverlay",
      "CommandLineOverride", "Validator", "ClaimHeaderSanitizer">>

\* the order of the stages in Configure followed by ValidateConfiguration
CodeOrder ==
    <<"SchemaGuard", "PrimaryResolver", "LegacyMigrator", "DefaultsOverlay",
      "ClaimHeaderSanitizer", "CommandLineOverride", "Validator">>

\* C8 (as claimed): in a run of main() the stages run in the described
\* order, the port flag is applied before the validator runs, and the claim
\* headers are computed only once the validator has succeeded.
C8_DescribedOrder ==
    ~CmdLine.goTest =>
        /\ RanInOrder(DescribedOrder)
        /\ Ran("Validator") => Ran("CommandLineOverride")
        /\ Ran("ClaimHeaderSanitizer") => errT = "nil"

\* C8 (amended): in a run of main() the stages run in the order of the
\* code: the claim headers are computed after the defaults and before the
\* port flag is applied, and both before the validator runs.
C8_CodeOrder ==
    ~CmdLine.goTest =>
        /\ RanInOrder(CodeOrder)
        /\ Ran("Validator") => Ran("CommandLineOverride")
        /\ Ran("CommandLineOverride") => Ran("ClaimHeaderSanitizer")
        /\ Ran("ClaimHeaderSanitizer") => Ran("DefaultsOverlay")

\* C8 witness: the claim headers were computed for a configuration that then failed validation
C8_Witness ==
    /\ pc = "panic"
    /\ errT = "JWT maxAge cannot be zero or lower"
    /\ Ran("ClaimHeaderSanitizer")
    /\ stages[Len(stages)] = "Validator"

\* C10 (as claimed): in a run of main(), once a stage has failed to read
\* its document the process has ended: an unreadable primary document ends
\* it in parseConfig, an unreadable .defaults.yml in setDefaults.
C10_ReadFailureIsFatal ==
    ~CmdLine.goTest =>
        /\ (~files.primary.ok /\ pc # "main" /\ ~(pc = "Configure" /\ step = 1)) => pc = "exit"
        /\ (~files.defaults.ok /\ Ran("DefaultsOverlay")) => pc = "exit"

\* the header a call returned, without the prefix it was given
CallBody == SubSeq(call.header, Len(call.claimHeader) + 1, Len(call.header))

\* C5 (as claimed): the header is the prefix followed only by letters, digits and hyphens
C5_OnlyLettersDigitsHyphens ==
    call.returned =>
        /\ SubSeq(call.header, 1, Len(call.claimHeader)) = call.claimHeader
        /\ Range(CallBody) \subseteq Letters \cup Digits \cup {Hyphen}

\* C5 (amended): the header is the prefix followed only by printable ASCII
\* characters (33..126) outside the disallowed set, that is letters,
\* digits, hyphens and the punctuation !#$%&'*+^`|~
C5_OnlyAllowedPrintable ==
    call.returned =>
        /\ SubSeq(call.header, 1, Len(call.claimHeader)) = call.claimHeader
        /\ Range(CallBody) \subseteq (33..126) \ Range(DisallowedRunes)
        /\ (33..126) \ Range(DisallowedRunes)
               = Letters \cup Digits \cup {Hyphen} \cup {33, 35, 36, 37, 38, 39, 42, 43, 94, 96, 124, 126}

\* C5 witness: a claim with a slash, an exclamation mark and an e-acute:
\* the first and the last became hyphens, the exclamation mark is still there
C5_Witness ==
    /\ call.returned
    /\ call.claim = <<47, 33, 233>>
    /\ CallBody = <<Hyphen, 33, Hyphen>>

====
